---- MODULE Spec2Model ----
(***************************************************************************)
(* The share-configuration cache of mgmt/share_config.c: the hash table    *)
(* shares_table guarded by the rw-semaphore shares_table_lock, the         *)
(* reference-counted ksmbd_share_config entities, the fetch-and-reconcile  *)
(* path of share_config_request, the deferred free and the bulk cleanup.   *)
(* Callers are concurrent kernel threads; every action below is one step   *)
(* of one caller that is atomic with respect to the others (a critical     *)
(* section of the semaphore, one atomic_t operation, or caller-local work).*)
(***************************************************************************)
EXTENDS Integers, Sequences, FiniteSets, TLC

\* ------------------------------------------------------------------ bounds
NumProcs == 3
MaxEnt == 2
MaxLoads == 2
MaxShutdowns == 1

\* ------------------------------------------------------- program constants
SHARE_HASH_BITS == 3

Procs == 1..NumProcs
EntIds == 1..MaxEnt
Buckets == 0..(2^SHARE_HASH_BITS - 1)

\* Share names are C strings: sequences of character codes.
\* 65 = 'A', 97 = 'a', 105 = 'i'.
RequestNames == { <<65>>, <<97>>, <<105>> }

tolower(c) == IF c >= 65 /\ c <= 90 THEN c + 32 ELSE c

strtolower(s) == [i \in DOMAIN s |-> tolower(s[i])]

CanonNames == { strtolower(n) : n \in RequestNames }

RECURSIVE SumSeq(_)
SumSeq(s) == IF s = <<>> THEN 0 ELSE Head(s) + SumSeq(Tail(s))

\* jhash() is a kernel library function; only "equal names hash equally" is
\* used by the table, so the hash is a fixed function of the name.  'a' and
\* 'i' fall into the same bucket.
share_name_hash(nm) == SumSeq(nm)

hash_min(key) == key % (2^SHARE_HASH_BITS)

\* ------------------------------------------------------------ veto buffers
\* A veto buffer is a packed sequence of NUL-terminated patterns with its
\* length supplied separately.  0 is NUL.
VetoBufs == << [buf |-> <<>>, sz |-> 0],
               [buf |-> <<42, 0, 63, 0>>, sz |-> 4] >>

\* strlen from position pos (1-based) of buf; the end of the buffer reads
\* as a terminator.
RECURSIVE strlen(_, _)
strlen(buf, pos) ==
    IF pos > Len(buf) \/ buf[pos] = 0 THEN 0 ELSE 1 + strlen(buf, pos + 1)

ENOMEM == 12

\* Mutant of veto_loop: list_add_tail instead of list_add, every pattern
\* goes to the end of the list.
RECURSIVE veto_loop_tail(_, _, _, _, _, _)
veto_loop_tail(buf, pos, sz, list, nal, failAt) ==
    IF ~(sz > 0) THEN [ret |-> 0, list |-> list]
    ELSE IF nal + 1 = failAt THEN [ret |-> 0 - ENOMEM, list |-> list]
    ELSE LET len == strlen(buf, pos) IN
         IF len = 0 THEN [ret |-> 0, list |-> list]
         ELSE IF nal + 2 = failAt THEN [ret |-> 0 - ENOMEM, list |-> list]
         ELSE veto_loop_tail(buf, pos + len + 1, sz - (len + 1),
                             list \o <<SubSeq(buf, pos, pos + len - 1)>>,
                             nal + 2, failAt)

\* parse_veto_list over buf from pos with sz bytes left; list is the veto
\* list so far (head first); nalloc counts the allocations made so far and
\* failAt is the allocation that fails (0: none does).
RECURSIVE veto_loop(_, _, _, _, _, _)
veto_loop(buf, pos, sz, list, nal, failAt) ==
    IF ~(sz > 0) THEN [ret |-> 0, list |-> list]
    ELSE IF nal + 1 = failAt THEN [ret |-> 0 - ENOMEM, list |-> list]
    ELSE LET len == strlen(buf, pos) IN
         IF len = 0 THEN [ret |-> 0, list |-> list]
         ELSE IF nal + 2 = failAt THEN [ret |-> 0 - ENOMEM, list |-> list]
         ELSE veto_loop(buf, pos + len + 1, sz - (len + 1),
                        <<SubSeq(buf, pos, pos + len - 1)>> \o list,
                        nal + 2, failAt)

parse_veto_list(buf, sz, failAt) ==
    IF sz = 0 THEN [ret |-> 0, list |-> <<>>]
    ELSE veto_loop(buf, 1, sz, <<>>, 0, failAt)

\* The allocations parse_veto_list can make on the buffers above.
MaxVetoAllocs == 4

\* ------------------------------------------------------------------- state
VARIABLES
    table,      \* shares_table: bucket -> chain of entity ids, head first
    ent,        \* the ksmbd_share_config objects ever allocated
    nalloc,     \* how many of them there are (ids 1..nalloc)
    killed,     \* entity -> the kill_share calls made on it (their call sites)
    workq,      \* entities whose free_work is scheduled and has not run
    readers,    \* callers holding shares_table_lock in shared mode
    writer,     \* the holder of shares_table_lock in exclusive mode, or 0
    pc,         \* caller -> where it stands
    name,       \* caller -> the (lower-cased) name of its get in progress
    share,      \* caller -> its local variable share (0 is NULL)
    resp,       \* caller -> the response of its ConfigLoader request
    held,       \* caller -> the handle it holds (0: none)
    loads,      \* ConfigLoader requests answered so far
    shutdowns,  \* ksmbd_share_configs_cleanup calls made so far
    uaf,        \* a step has used an entity after kill_share freed it
    veto,       \* one call of parse_veto_list and the matches on its list
    fsids       \* one thread's credentials around ksmbd_override_fsids

vars == << table, ent, nalloc, killed, workq, readers, writer, pc, name,
           share, resp, held, loads, shutdowns, uaf, veto, fsids >>

\* The state of the two single-thread functions of the file, which the
\* steps of the table leave alone.
fnvars == << veto, fsids >>

\* The variables of the table, which the single-thread functions leave
\* alone.
sharevars == << table, ent, nalloc, killed, workq, readers, writer, pc, name,
               share, resp, held, loads, shutdowns, uaf >>

\* No call of parse_veto_list is under way.
NoVeto == [stage |-> "none"]

\* No thread is between ksmbd_override_fsids and ksmbd_revert_fsids.
NoFsids == [stage |-> "none"]

NoName == << >>

\* A slot of ent that no allocation has used yet.
NoEnt == [name |-> NoName, nameNull |-> TRUE, pipe |-> FALSE, path |-> FALSE,
          vfs |-> FALSE, veto |-> << >>, refcount |-> 0]

NoResp == [kind |-> "none", pipe |-> FALSE, veto |-> 1]

\* What ksmbd_ipc_share_config_request can answer: no response, a response
\* flagged KSMBD_SHARE_FLAG_INVALID, or a valid one: for a pipe (whose veto
\* buffer the code never reads) or not, with one of the veto buffers.
Responses ==
    { [kind |-> "null", pipe |-> FALSE, veto |-> 1],
      [kind |-> "invalid", pipe |-> FALSE, veto |-> 1] }
    \cup { [kind |-> "ok", pipe |-> TRUE, veto |-> 1] }
    \cup { [kind |-> "ok", pipe |-> FALSE, veto |-> v] :
           v \in 1..Len(VetoBufs) }

\* The state of the table's variables after module initialisation.
InitShares ==
    /\ table = [b \in Buckets |-> << >>]
    /\ ent = [e \in EntIds |-> NoEnt]
    /\ nalloc = 0
    /\ killed = [e \in EntIds |-> << >>]
    /\ workq = {}
    /\ readers = {}
    /\ writer = 0
    /\ pc = [p \in Procs |-> "idle"]
    /\ name = [p \in Procs |-> NoName]
    /\ share = [p \in Procs |-> 0]
    /\ resp = [p \in Procs |-> NoResp]
    /\ held = [p \in Procs |-> 0]
    /\ loads = 0
    /\ shutdowns = 0
    /\ uaf = FALSE

Init ==
    /\ InitShares
    /\ veto = NoVeto
    /\ fsids = NoFsids

\* ----------------------------------------------------------------- helpers
SeqToSet(s) == { s[i] : i \in DOMAIN s }

RECURSIVE SeqRemove(_, _)
SeqRemove(s, x) ==
    IF s = << >> THEN << >>
    ELSE IF Head(s) = x THEN SeqRemove(Tail(s), x)
    ELSE << Head(s) >> \o SeqRemove(Tail(s), x)

\* The entities linked into the table.
InTable(t) == UNION { SeqToSet(t[b]) : b \in Buckets }

\* Mutant of hash_add: the node goes to the end of the chain.
hash_add_tail(t, e, key) ==
    [t EXCEPT ![hash_min(key)] = @ \o << e >>]

\* hash_add: the node goes to the head of the chain of its key's bucket.
hash_add(t, e, key) ==
    [t EXCEPT ![hash_min(key)] = << e >> \o @]

\* Mutant of hash_del: the node is left linked.
hash_del_nothing(t, e) == t

\* hash_del: unlinks the node from whatever chain holds it (no effect on a
\* node that is in none).
hash_del(t, e) == [b \in Buckets |-> SeqRemove(t[b], e)]

\* Mutant of atomic_inc_not_zero: reports success on a positive counter
\* without incrementing it.
atomic_inc_not_zero_noinc(v) ==
    IF v = 0 THEN [val |-> 0, ok |-> FALSE] ELSE [val |-> v, ok |-> TRUE]

\* Mutant of atomic_inc_not_zero: a plain atomic_inc, which also lifts a
\* counter that is zero.
atomic_inc(v) == [val |-> v + 1, ok |-> TRUE]

\* atomic_inc_not_zero on a counter value: the new value and the result.
atomic_inc_not_zero(v) ==
    IF v = 0 THEN [val |-> 0, ok |-> FALSE] ELSE [val |-> v + 1, ok |-> TRUE]

\* Mutant of __get_share_config: the result of atomic_inc_not_zero is
\* ignored and the entity is returned in any case.
get_share_config_unchecked(es, e) ==
    [share |-> e,
     ent |-> [es EXCEPT ![e].refcount = atomic_inc_not_zero(@).val]]

\* __get_share_config: the entity, or 0 (NULL) when its refcount is zero.
\* The second component is the entity table after the increment.
__get_share_config(es, e) ==
    LET r == atomic_inc_not_zero(es[e].refcount) IN
    IF ~r.ok THEN [share |-> 0, ent |-> es]
    ELSE [share |-> e, ent |-> [es EXCEPT ![e].refcount = r.val]]

\* __share_lookup: the first entity of the name's chain whose name compares
\* equal, 0 (NULL) when there is none.  strcmp against a NULL share->name
\* dereferences NULL: the result is then OOPS.
OOPS == 0 - 1

RECURSIVE lookup_chain(_, _, _)
lookup_chain(chain, es, nm) ==
    IF chain = << >> THEN 0
    ELSE IF es[Head(chain)].nameNull THEN OOPS
    ELSE IF es[Head(chain)].name = nm THEN Head(chain)
    ELSE lookup_chain(Tail(chain), es, nm)

\* Mutant of __share_lookup: the chain searched is not the one hash_add
\* links the name into.
share_lookup_wrong_bucket(t, es, nm) ==
    lookup_chain(t[hash_min(share_name_hash(nm) + 1)], es, nm)

__share_lookup(t, es, nm) ==
    lookup_chain(t[hash_min(share_name_hash(nm))], es, nm)

\* What is left of an entity once kill_share has freed it: its strings and
\* its memory are gone (the name is kept here only to tell which share the
\* freed entity was of; nameNull says the pointer no longer leads to it).
Freed(old) == [NoEnt EXCEPT !.name = old.name]

\* kill_share, lines 52-53: path_put(&share->vfs_path) is called exactly
\* when share->path is not NULL.
kill_share_puts_path(sh) == sh.path

\* kill_share: frees the veto patterns, the path and the entity.  killed
\* records the call with its call site; a second call on the same entity is
\* a double free (calls beyond MaxKills are not recorded).
MaxKills == 2

kill_share(st, e, site) ==
    [ent |-> [st.ent EXCEPT ![e] = Freed(@)],
     killed |-> [st.killed EXCEPT
                   ![e] = IF Len(@) < MaxKills THEN Append(@, site) ELSE @]]

IsKilled(e) == killed[e] # << >>

\* shares_table_lock
CanRead == writer = 0
CanWrite == writer = 0 /\ readers = {}

\* A caller returns from get_share with handle h (0: none) and is idle again.
Return(p, h) ==
    /\ pc' = [pc EXCEPT ![p] = "idle"]
    /\ held' = [held EXCEPT ![p] = h]
    /\ name' = [name EXCEPT ![p] = NoName]
    /\ share' = [share EXCEPT ![p] = 0]
    /\ resp' = [resp EXCEPT ![p] = NoResp]

\* ------------------------------------------------- ksmbd_share_config_get
\* A caller holds at most one handle at a time: it calls get_share with
\* none and release_share with one.
\* strtolower(name); down_read(&shares_table_lock)
get_down_read(p, nm) ==
    /\ pc[p] = "idle"
    /\ held[p] = 0
    /\ CanRead
    /\ readers' = readers \cup {p}
    /\ name' = [name EXCEPT ![p] = strtolower(nm)]
    /\ pc' = [pc EXCEPT ![p] = "get_lookup"]
    /\ UNCHANGED << table, ent, nalloc, killed, workq, writer, share, resp,
                    held, loads, shutdowns, uaf >>
    /\ UNCHANGED fnvars

\* Mutant of get_lookup: up_read is skipped on a miss, so the caller goes
\* into share_config_request with the lock held in shared mode.
get_lookup_keeps_lock(p) ==
    /\ pc[p] = "get_lookup"
    /\ LET l == __share_lookup(table, ent, name[p]) IN
       IF l = OOPS
       THEN /\ pc' = [pc EXCEPT ![p] = "oops"]
            /\ UNCHANGED << ent, readers, name, share, resp, held >>
       ELSE LET g == IF l = 0 THEN [share |-> 0, ent |-> ent]
                     ELSE __get_share_config(ent, l) IN
            /\ readers' = IF g.share # 0 THEN readers \ {p} ELSE readers
            /\ ent' = g.ent
            /\ IF g.share # 0
               THEN Return(p, g.share)
               ELSE /\ pc' = [pc EXCEPT ![p] = "req_ipc"]
                    /\ UNCHANGED << name, share, resp, held >>
    /\ UNCHANGED << table, nalloc, killed, workq, writer, loads, shutdowns,
                    uaf >>
    /\ UNCHANGED fnvars

\* share = __share_lookup(name); if (share) share = __get_share_config(share);
\* up_read(); a hit returns the share, a miss goes on to share_config_request.
get_lookup(p) ==
    /\ pc[p] = "get_lookup"
    /\ LET l == __share_lookup(table, ent, name[p]) IN
       IF l = OOPS
       THEN /\ pc' = [pc EXCEPT ![p] = "oops"]
            /\ UNCHANGED << ent, readers, name, share, resp, held >>
       ELSE LET g == IF l = 0 THEN [share |-> 0, ent |-> ent]
                     ELSE __get_share_config(ent, l) IN
            /\ readers' = readers \ {p}
            /\ ent' = g.ent
            /\ IF g.share # 0
               THEN Return(p, g.share)
               ELSE /\ pc' = [pc EXCEPT ![p] = "req_ipc"]
                    /\ UNCHANGED << name, share, resp, held >>
    /\ UNCHANGED << table, nalloc, killed, workq, writer, loads, shutdowns,
                    uaf >>
    /\ UNCHANGED fnvars

\* --------------------------------------------------- share_config_request
\* resp = ksmbd_ipc_share_config_request(name): the caller sits in the
\* request while pc = "req_ipc"; this step is the answer arriving.
request_ipc(p) ==
    /\ pc[p] = "req_ipc"
    /\ loads < MaxLoads
    /\ \E r \in Responses : resp' = [resp EXCEPT ![p] = r]
    /\ loads' = loads + 1
    /\ pc' = [pc EXCEPT ![p] = "req_build"]
    /\ UNCHANGED << table, ent, nalloc, killed, workq, readers, writer, name,
                    share, held, shutdowns, uaf >>
    /\ UNCHANGED fnvars

\* Mutant of BuildEntity: a kern_path failure is forgiven (ret is reset), so
\* the entity goes on without a path instead of being killed.
BuildEntity_demote(nm, r, okName, okPath, failAt, okKern) ==
    IF r.pipe
    THEN [e |-> [name |-> IF okName THEN nm ELSE NoName, nameNull |-> ~okName,
                 pipe |-> TRUE, path |-> FALSE, vfs |-> FALSE,
                 veto |-> << >>, refcount |-> 1],
          fail |-> FALSE]
    ELSE LET v == VetoBufs[r.veto]
             pv == parse_veto_list(v.buf, v.sz, failAt)
             tryKern == pv.ret = 0 /\ okPath
             path == okPath /\ ~(tryKern /\ ~okKern)
         IN [e |-> [name |-> IF okName THEN nm ELSE NoName,
                    nameNull |-> ~okName, pipe |-> FALSE, path |-> path,
                    vfs |-> tryKern /\ okKern, veto |-> pv.list,
                    refcount |-> 1],
             fail |-> pv.ret # 0 \/ ~okName]

\* The entity share_config_request builds from a valid response, given which
\* of its allocations succeed and whether kern_path does.  ret is the value
\* of the local variable ret at line 180.
BuildEntity(nm, r, okName, okPath, failAt, okKern) ==
    IF r.pipe
    THEN [e |-> [name |-> IF okName THEN nm ELSE NoName, nameNull |-> ~okName,
                 pipe |-> TRUE, path |-> FALSE, vfs |-> FALSE,
                 veto |-> << >>, refcount |-> 1],
          fail |-> FALSE]
    ELSE LET v == VetoBufs[r.veto]
             pv == parse_veto_list(v.buf, v.sz, failAt)
             tryKern == pv.ret = 0 /\ okPath
             ret == IF tryKern THEN (IF okKern THEN 0 ELSE 0 - 2) ELSE pv.ret
             path == okPath /\ ~(tryKern /\ ~okKern)
         IN [e |-> [name |-> IF okName THEN nm ELSE NoName,
                    nameNull |-> ~okName, pipe |-> FALSE, path |-> path,
                    vfs |-> tryKern /\ okKern, veto |-> pv.list,
                    refcount |-> 1],
             fail |-> ret # 0 \/ ~okName]

\* Lines 140-148: share_config_request returns NULL when there is no
\* response or the response is flagged invalid (kinds says which answers
\* count as such), and when ksmbd_alloc of the entity fails.
request_return_null(p, kinds) ==
    /\ resp[p].kind \in kinds
    /\ Return(p, 0)
    /\ UNCHANGED << ent, nalloc, killed >>

\* Lines 146-185: the construction of the entity from a response of one of
\* the kinds, and its failure path (kill_share, return NULL).
request_construct(p, kinds) ==
    /\ resp[p].kind \in kinds
    /\ nalloc < MaxEnt
    /\ \E okName \in BOOLEAN, okPath \in BOOLEAN,
          failAt \in 0..MaxVetoAllocs, okKern \in BOOLEAN :
         LET b == BuildEntity(name[p], resp[p], okName, okPath,
                              failAt, okKern)
             id == nalloc + 1
             built == [ent |-> [ent EXCEPT ![id] = b.e],
                       killed |-> killed]
             st == IF b.fail THEN kill_share(built, id, "build")
                   ELSE built IN
         /\ nalloc' = id
         /\ ent' = st.ent
         /\ killed' = st.killed
         /\ IF b.fail
            THEN Return(p, 0)
            ELSE /\ share' = [share EXCEPT ![p] = id]
                 /\ pc' = [pc EXCEPT ![p] = "req_wlock"]
                 /\ UNCHANGED << name, resp, held >>

\* Mutant of request_build: the KSMBD_SHARE_FLAG_INVALID check of line 143
\* is missing, so a response flagged invalid is built like a valid one.
request_build_unflagged(p) ==
    /\ pc[p] = "req_build"
    /\ \/ request_return_null(p, {"null"})
       \/ request_return_null(p, {"invalid", "ok"})
       \/ request_construct(p, {"invalid", "ok"})
    /\ UNCHANGED << table, workq, readers, writer, loads, shutdowns, uaf >>
    /\ UNCHANGED fnvars

\* Lines 140-185: the checks of the response, the construction of the
\* entity and its failure path.  All of it is local to the caller.
request_build(p) ==
    /\ pc[p] = "req_build"
    /\ \/ request_return_null(p, {"null", "invalid"})
       \/ request_return_null(p, {"ok"})
       \/ request_construct(p, {"ok"})
    /\ UNCHANGED << table, workq, readers, writer, loads, shutdowns, uaf >>
    /\ UNCHANGED fnvars

\* down_write(&shares_table_lock)
request_down_write(p) ==
    /\ pc[p] = "req_wlock"
    /\ CanWrite
    /\ writer' = p
    /\ pc' = [pc EXCEPT ![p] = "req_reconcile"]
    /\ UNCHANGED << table, ent, nalloc, killed, workq, readers, name, share,
                    resp, held, loads, shutdowns, uaf >>
    /\ UNCHANGED fnvars

\* Lines 188-201: the second lookup under the exclusive lock, the insertion
\* or the discard of the built entity, up_write and the return.
request_reconcile(p) ==
    /\ pc[p] = "req_reconcile"
    /\ LET l == __share_lookup(table, ent, name[p]) IN
       IF l = OOPS
       THEN /\ pc' = [pc EXCEPT ![p] = "oops"]
            /\ UNCHANGED << table, ent, killed, writer, name, share, resp,
                            held >>
       ELSE LET g == IF l = 0 THEN [share |-> 0, ent |-> ent]
                     ELSE __get_share_config(ent, l)
                 got == [ent |-> g.ent, killed |-> killed]
                 st == IF g.share = 0 THEN got
                       ELSE kill_share(got, share[p], "reconcile") IN
            /\ ent' = st.ent
            /\ killed' = st.killed
            /\ writer' = 0
            /\ IF g.share = 0
               THEN /\ table' = hash_add(table, share[p],
                                         share_name_hash(name[p]))
                    /\ Return(p, share[p])
               ELSE /\ table' = table
                    /\ Return(p, g.share)
    /\ UNCHANGED << nalloc, workq, readers, loads, shutdowns, uaf >>
    /\ UNCHANGED fnvars

share_config_request(p) ==
    \/ request_ipc(p)
    \/ request_build(p)
    \/ request_down_write(p)
    \/ request_reconcile(p)

ksmbd_share_config_get(p) ==
    \/ \E nm \in RequestNames : get_down_read(p, nm)
    \/ get_lookup(p)
    \/ share_config_request(p)

\* ------------------------------------------------- ksmbd_share_config_put
\* atomic_dec_and_test on a counter value: the new value and the result.
atomic_dec_and_test(v) == [val |-> v - 1, zero |-> v - 1 = 0]

\* The inline ksmbd_share_config_put of share_config.h: the decrement; only
\* a decrement to zero goes on to __ksmbd_share_config_put.  On an entity
\* that kill_share has freed the decrement reads freed memory: either
\* result can come out.
put_dec(p) ==
    /\ pc[p] = "idle"
    /\ held[p] # 0
    /\ LET e == held[p]
           r == atomic_dec_and_test(ent[e].refcount) IN
       /\ held' = [held EXCEPT ![p] = 0]
       /\ IF IsKilled(e)
          THEN /\ uaf' = TRUE
               /\ ent' = ent
               /\ \E z \in BOOLEAN :
                    IF z THEN /\ pc' = [pc EXCEPT ![p] = "put_wlock"]
                              /\ share' = [share EXCEPT ![p] = e]
                         ELSE UNCHANGED << pc, share >>
          ELSE /\ uaf' = uaf
               /\ ent' = [ent EXCEPT ![e].refcount = r.val]
               /\ IF r.zero
                  THEN /\ pc' = [pc EXCEPT ![p] = "put_wlock"]
                       /\ share' = [share EXCEPT ![p] = e]
                  ELSE UNCHANGED << pc, share >>
    /\ UNCHANGED << table, nalloc, killed, workq, readers, writer, name,
                    resp, loads, shutdowns >>
    /\ UNCHANGED fnvars

\* __ksmbd_share_config_put: down_write(&shares_table_lock)
put_down_write(p) ==
    /\ pc[p] = "put_wlock"
    /\ CanWrite
    /\ writer' = p
    /\ pc' = [pc EXCEPT ![p] = "put_del"]
    /\ UNCHANGED << table, ent, nalloc, killed, workq, readers, name, share,
                    resp, held, loads, shutdowns, uaf >>
    /\ UNCHANGED fnvars

\* Mutant of put_hash_del: the entity is not unlinked.
put_hash_del_skipped(p) ==
    /\ pc[p] = "put_del"
    /\ writer' = 0
    /\ uaf' = (uaf \/ IsKilled(share[p]))
    /\ pc' = [pc EXCEPT ![p] = "put_sched"]
    /\ UNCHANGED << table, ent, nalloc, killed, workq, readers, name, share,
                    resp, held, loads, shutdowns >>
    /\ UNCHANGED fnvars

\* __ksmbd_share_config_put: hash_del(&share->hlist); up_write()
put_hash_del(p) ==
    /\ pc[p] = "put_del"
    /\ table' = hash_del(table, share[p])
    /\ writer' = 0
    /\ uaf' = (uaf \/ IsKilled(share[p]))
    /\ pc' = [pc EXCEPT ![p] = "put_sched"]
    /\ UNCHANGED << ent, nalloc, killed, workq, readers, name, share, resp,
                    held, loads, shutdowns >>
    /\ UNCHANGED fnvars

\* Mutant of put_schedule_work: kill_share is called in the releasing caller
\* itself instead of being handed to the work queue.
put_kill_inline(p) ==
    /\ pc[p] = "put_sched"
    /\ LET st == kill_share([ent |-> ent, killed |-> killed], share[p],
                            "worker") IN
       /\ ent' = st.ent
       /\ killed' = st.killed
    /\ uaf' = (uaf \/ IsKilled(share[p]))
    /\ pc' = [pc EXCEPT ![p] = "idle"]
    /\ share' = [share EXCEPT ![p] = 0]
    /\ UNCHANGED << table, nalloc, workq, readers, writer, name, resp,
                    held, loads, shutdowns >>
    /\ UNCHANGED fnvars

\* __ksmbd_share_config_put: schedule_work(&share->free_work)
put_schedule_work(p) ==
    /\ pc[p] = "put_sched"
    /\ workq' = workq \cup {share[p]}
    /\ uaf' = (uaf \/ IsKilled(share[p]))
    /\ pc' = [pc EXCEPT ![p] = "idle"]
    /\ share' = [share EXCEPT ![p] = 0]
    /\ UNCHANGED << table, ent, nalloc, killed, readers, writer, name, resp,
                    held, loads, shutdowns >>
    /\ UNCHANGED fnvars

__ksmbd_share_config_put(p) ==
    \/ put_down_write(p)
    \/ put_hash_del(p)
    \/ put_schedule_work(p)

ksmbd_share_config_put(p) ==
    \/ put_dec(p)
    \/ __ksmbd_share_config_put(p)

\* deferred_share_free: the work item runs kill_share on its entity.
deferred_share_free(e) ==
    /\ e \in workq
    /\ workq' = workq \ {e}
    /\ LET st == kill_share([ent |-> ent, killed |-> killed], e, "worker") IN
       /\ ent' = st.ent
       /\ killed' = st.killed
    /\ uaf' = (uaf \/ IsKilled(e))
    /\ UNCHANGED << table, nalloc, readers, writer, pc, name, share,
                    resp, held, loads, shutdowns >>
    /\ UNCHANGED fnvars

\* ksmbd_share_configs_cleanup: under the exclusive lock every entity of
\* the table is unlinked and killed, whatever its refcount.
RECURSIVE kill_all(_, _)
kill_all(st, es) ==
    IF es = {} THEN st
    ELSE LET e == CHOOSE x \in es : TRUE IN
         kill_all(kill_share(st, e, "cleanup"), es \ {e})

\* Mutant of ksmbd_share_configs_cleanup: the entities are killed but left
\* linked in the table.
cleanup_without_unlink ==
    /\ shutdowns < MaxShutdowns
    /\ CanWrite
    /\ LET st == kill_all([ent |-> ent, killed |-> killed], InTable(table)) IN
       /\ ent' = st.ent
       /\ killed' = st.killed
    /\ shutdowns' = shutdowns + 1
    /\ UNCHANGED << table, nalloc, workq, readers, writer, pc, name, share,
                    resp, held, loads, uaf >>
    /\ UNCHANGED fnvars

ksmbd_share_configs_cleanup ==
    /\ shutdowns < MaxShutdowns
    /\ CanWrite
    /\ table' = [b \in Buckets |-> << >>]
    /\ LET st == kill_all([ent |-> ent, killed |-> killed], InTable(table)) IN
       /\ ent' = st.ent
       /\ killed' = st.killed
    /\ shutdowns' = shutdowns + 1
    /\ UNCHANGED << nalloc, workq, readers, writer, pc, name, share,
                    resp, held, loads, uaf >>
    /\ UNCHANGED fnvars

\* ----------------------------------------------------------- specification
Caller(p) ==
    \/ ksmbd_share_config_get(p)
    \/ ksmbd_share_config_put(p)

Worker == \E e \in EntIds : deferred_share_free(e)

Next ==
    \/ \E p \in Procs : Caller(p)
    \/ Worker
    \/ ksmbd_share_configs_cleanup

Spec == Init /\ [][Next]_vars

\* The same callers and worker with no bulk cleanup: the interleavings of
\* get_share and release_share alone.
NextNoCleanup ==
    \/ \E p \in Procs : Caller(p)
    \/ Worker

SpecNoCleanup == Init /\ [][NextNoCleanup]_vars

\* Callers that only call get_share: no release and no cleanup runs.
NextGets == \E p \in Procs : ksmbd_share_config_get(p)

SpecGets == Init /\ [][NextGets]_vars

\* Callers that keep the contract of ksmbd_share_configs_cleanup: no
\* release_share is started on a handle once the cleanup has run (a
\* release that has started goes on).
put_dec_before_cleanup(p) ==
    /\ shutdowns = 0
    /\ put_dec(p)

NextNoStaleRelease ==
    \/ \E p \in Procs : \/ ksmbd_share_config_get(p)
                         \/ put_dec_before_cleanup(p)
                         \/ __ksmbd_share_config_put(p)
    \/ Worker
    \/ ksmbd_share_configs_cleanup

SpecNoStaleRelease == Init /\ [][NextNoStaleRelease]_vars

\* ------------------------------------------- parse_veto_list on its own
\* One call of parse_veto_list on any packed buffer, followed by calls of
\* ksmbd_share_veto_filename on the list it built.
MaxBufLen == 4

\* 0 = NUL, 42 = '*', 63 = '?', 97 = 'a', 98 = 'b'.
VetoChars == {0, 42, 63, 97}

\* The buffers a response can carry: the strings of a buffer are NUL
\* terminated, so a buffer that is not empty ends with a NUL.
VetoInputs ==
    { << >> } \cup
    { b \in UNION { [1..n -> VetoChars] : n \in 1..MaxBufLen } : b[Len(b)] = 0 }

Filenames == { << >>, <<97>>, <<98>>, <<97, 98>>, <<42>> }

\* match_wildcard of the kernel library: '*' matches any run of characters,
\* '?' any one character, every other character itself.
RECURSIVE match_wildcard(_, _)
match_wildcard(pattern, str) ==
    IF pattern = << >> THEN str = << >>
    ELSE IF Head(pattern) = 42
         THEN \/ match_wildcard(Tail(pattern), str)
              \/ str # << >> /\ match_wildcard(pattern, Tail(str))
    ELSE /\ str # << >>
         /\ Head(pattern) = 63 \/ Head(pattern) = Head(str)
         /\ match_wildcard(Tail(pattern), Tail(str))

\* Mutant of ksmbd_share_veto_filename: only the entry at the head of the
\* list is tried.
veto_filename_head_only(list, filename) ==
    list # << >> /\ match_wildcard(Head(list), filename)

\* ksmbd_share_veto_filename: the entries are tried from the head of the
\* list; the first match returns true, the end of the list false.
RECURSIVE ksmbd_share_veto_filename(_, _)
ksmbd_share_veto_filename(list, filename) ==
    IF list = << >> THEN FALSE
    ELSE IF match_wildcard(Head(list), filename) THEN TRUE
    ELSE ksmbd_share_veto_filename(Tail(list), filename)

InitVeto ==
    /\ InitShares
    /\ fsids = NoFsids
    /\ \E b \in VetoInputs, sz \in (0 - 1)..MaxBufLen,
          failAt \in 0..MaxVetoAllocs :
         /\ sz <= Len(b)
         /\ veto = [stage |-> "call", veto_list |-> b, veto_list_sz |-> sz,
                    failAt |-> failAt, ret |-> 0, list |-> << >>,
                    filename |-> << >>, found |-> FALSE]

\* The call of parse_veto_list(share, veto_list, veto_list_sz) on a share
\* whose veto list is empty.
veto_parse ==
    /\ veto.stage = "call"
    /\ LET r == parse_veto_list(veto.veto_list, veto.veto_list_sz,
                                veto.failAt) IN
       veto' = [veto EXCEPT !.stage = "parsed", !.ret = r.ret,
                            !.list = r.list]
    /\ UNCHANGED << sharevars, fsids >>

\* A call of ksmbd_share_veto_filename(share, filename) on the share whose
\* construction went through.
veto_match(filename) ==
    /\ veto.stage \in {"parsed", "matched"}
    /\ veto.ret = 0
    /\ veto' = [veto EXCEPT
                  !.stage = "matched", !.filename = filename,
                  !.found = ksmbd_share_veto_filename(veto.list, filename)]
    /\ UNCHANGED << sharevars, fsids >>

NextVeto ==
    \/ veto_parse
    \/ \E f \in Filenames : veto_match(f)

SpecVeto == InitVeto /\ [][NextVeto]_vars

\* --------------------------- ksmbd_override_fsids / ksmbd_revert_fsids
\* One thread with its credentials (current->cred), one session and one
\* share: a call of ksmbd_override_fsids and the ksmbd_revert_fsids that
\* follows it.
SHARE_INVALID_UID == 65535
SHARE_INVALID_GID == 65535

GLOBAL_ROOT_UID == 0

\* Capabilities: the ones of CAP_FS_SET and one that is not of it.
CAP_FULL_SET == {"CAP_CHOWN", "CAP_DAC_OVERRIDE", "CAP_FOWNER", "CAP_NET_ADMIN"}
CAP_FS_SET == {"CAP_CHOWN", "CAP_DAC_OVERRIDE", "CAP_FOWNER"}

cap_drop_fs_set(caps) == caps \ CAP_FS_SET

\* The uids and gids of sessions, the force_uid and force_gid of shares
\* (__u16 in the response) and the credentials a thread can come with.
SessionIds == {0, 1000, 65535}
ForceIds == {0, 1001, SHARE_INVALID_UID}
ThreadCreds ==
    [fsuid : {0, 1000}, fsgid : {0, 1000}, cap_effective : {CAP_FULL_SET, {}}]

\* prepare_kernel_cred(NULL): a copy of the kernel's own credentials.
init_cred == [fsuid |-> GLOBAL_ROOT_UID, fsgid |-> 0,
              cap_effective |-> CAP_FULL_SET]

\* make_kuid / make_kgid in the initial user namespace, where kernel
\* threads run: the id stands for itself.
make_kuid(uid) == uid
make_kgid(gid) == gid

\* The const struct cred * values ksmbd_override_fsids returns and
\* ksmbd_revert_fsids takes.
NoCred == [fsuid |-> 0 - 1, fsgid |-> 0 - 1, cap_effective |-> {}]
NullToken == [kind |-> "null", cred |-> NoCred]
ErrToken == [kind |-> "err", cred |-> NoCred]
IS_ERR_OR_NULL(token) == token.kind \in {"null", "err"}

\* Mutant of override_ids: force_gid is honoured only together with
\* force_uid.
override_ids_coupled(user_uid, user_gid, force_uid, force_gid) ==
    [uid |-> IF force_uid # SHARE_INVALID_UID THEN force_uid ELSE user_uid,
     gid |-> IF force_uid # SHARE_INVALID_UID /\ force_gid # SHARE_INVALID_GID
             THEN force_gid ELSE user_gid]

\* Lines 259-265: the uid and gid ksmbd_override_fsids decides on.
override_ids(user_uid, user_gid, force_uid, force_gid) ==
    LET uid0 == user_uid
        gid0 == user_gid
        uid == IF force_uid # SHARE_INVALID_UID THEN force_uid ELSE uid0
        gid == IF force_gid # SHARE_INVALID_GID THEN force_gid ELSE gid0
    IN [uid |-> uid, gid |-> gid]

\* ksmbd_override_fsids on a thread whose credentials are cur; okCred says
\* whether prepare_kernel_cred succeeds.  Gives the thread's credentials
\* after the call, the value returned and the references held on the new
\* credentials (prepare_kernel_cred's and override_creds').
ksmbd_override_fsids(cur, user_uid, user_gid, force_uid, force_gid, okCred) ==
    LET ids == override_ids(user_uid, user_gid, force_uid, force_gid)
        fsuid == make_kuid(ids.uid)
        fsgid == make_kgid(ids.gid)
        caps == IF fsuid # GLOBAL_ROOT_UID
                THEN cap_drop_fs_set(init_cred.cap_effective)
                ELSE init_cred.cap_effective
        cred == [fsuid |-> fsuid, fsgid |-> fsgid, cap_effective |-> caps]
    IN IF ~okCred
       THEN [current |-> cur, token |-> ErrToken, usage |-> 0]
       ELSE [current |-> cred, token |-> [kind |-> "cred", cred |-> cur],
             usage |-> 2]

\* Mutant of ksmbd_revert_fsids: the IS_ERR_OR_NULL check is missing.
revert_fsids_unchecked(cur, old_cred, usage) ==
    [current |-> old_cred.cred, usage |-> usage - 2]

\* ksmbd_revert_fsids: revert_creds(old_cred) installs old_cred and drops
\* override_creds' reference on the credentials that were active,
\* put_cred drops the last one.
ksmbd_revert_fsids(cur, old_cred, usage) ==
    IF ~IS_ERR_OR_NULL(old_cred)
    THEN [current |-> old_cred.cred, usage |-> usage - 2]
    ELSE [current |-> cur, usage |-> usage]

InitFsids ==
    /\ InitShares
    /\ veto = NoVeto
    /\ \E c \in ThreadCreds, uu \in SessionIds, ug \in SessionIds,
          fu \in ForceIds, fg \in ForceIds :
         fsids = [stage |-> "call", entry |-> c, current |-> c,
                  user_uid |-> uu, user_gid |-> ug,
                  force_uid |-> fu, force_gid |-> fg,
                  old_cred |-> NullToken, usage |-> 0]

\* old_cred = ksmbd_override_fsids(sess, share)
override_fsids ==
    /\ fsids.stage = "call"
    /\ \E okCred \in BOOLEAN :
         LET r == ksmbd_override_fsids(fsids.current, fsids.user_uid,
                                       fsids.user_gid, fsids.force_uid,
                                       fsids.force_gid, okCred) IN
         fsids' = [fsids EXCEPT !.stage = "overridden",
                                !.current = r.current,
                                !.old_cred = r.token,
                                !.usage = r.usage]
    /\ UNCHANGED << sharevars, veto >>

\* ksmbd_revert_fsids(old_cred): with the value the override returned, or
\* with NULL by a thread that has made no override.
revert_fsids ==
    /\ fsids.stage \in {"call", "overridden"}
    /\ LET r == ksmbd_revert_fsids(fsids.current, fsids.old_cred,
                                   fsids.usage) IN
       fsids' = [fsids EXCEPT !.stage = "reverted",
                              !.current = r.current,
                              !.usage = r.usage]
    /\ UNCHANGED << sharevars, veto >>

NextFsids ==
    \/ override_fsids
    \/ revert_fsids

SpecFsids == InitFsids /\ [][NextFsids]_vars

\* ------------------------------------------------------------------ claims
\* The entities the model has allocated so far.
Allocated == 1..nalloc

\* The entities of the table that carry the name X.
Entries(X) == { e \in InTable(table) : ~ent[e].nameNull /\ ent[e].name = X }

\* The callers inside release_share on entity e: past the decrement to
\* zero, before the end of __ksmbd_share_config_put.
Releasing(e) ==
    { p \in Procs : pc[p] \in {"put_wlock", "put_del", "put_sched"}
                    /\ share[p] = e }

\* The handles of entity e that get_share has returned and release_share
\* has not taken back.
Holders(e) == { p \in Procs : held[p] = e }

\* C1 (per name): for every name X, once every handle that get_share returned for X
\* has been released (no caller holds one, no release_share is still
\* running) and every scheduled deferred destruction has run, the table
\* holds no entry named X.
C1_DrainedTableHasNoEntry ==
    \A X \in CanonNames :
        ( /\ \A e \in Allocated :
                ent[e].name = X => Holders(e) = {} /\ Releasing(e) = {}
          /\ \A e \in workq : ent[e].name # X )
        => Entries(X) = {}

\* C1, all names at once: with no handle outstanding anywhere and no
\* destruction pending the table is empty.
C1_DrainedTableIsEmpty ==
    ( /\ \A e \in Allocated : Holders(e) = {} /\ Releasing(e) = {}
      /\ workq = {} )
    => InTable(table) = {}

\* C1: once every handle get_share returned for a name has been released
\* and every scheduled deferred destruction has run, the table contains no
\* entry of that name (and, with every name drained, no entry at all).
C1_Drained == C1_DrainedTableHasNoEntry /\ C1_DrainedTableIsEmpty

\* C1 witness: an entity of X went through get_share, release_share and the
\* deferred worker, and X is drained.
C1_Witness ==
    \E e \in Allocated :
        /\ killed[e] = << "worker" >>
        /\ \A f \in Allocated :
              ent[f].name = ent[e].name =>
                  Holders(f) = {} /\ Releasing(f) = {} /\ f \notin workq
        /\ \A p \in Procs : pc[p] = "idle"

\* The callers that hold a handle of an entity named X.
HoldersOf(X) ==
    { p \in Procs : held[p] # 0 /\ ~ent[held[p]].nameNull
                    /\ ent[held[p]].name = X }

\* A step in which caller p returns from get_share.
GetReturns(p) ==
    /\ pc[p] \in {"get_lookup", "req_build", "req_reconcile"}
    /\ pc'[p] = "idle"

\* C2, the loader: a caller enters the ConfigLoader request only from the
\* miss of the shared lookup of the same get_share call and the loader is
\* asked only there, so N calls ask it at most N times.
C2_OneLoadPerCall ==
    \A p \in Procs :
        /\ pc'[p] = "req_ipc" => pc[p] \in {"get_lookup", "req_ipc"}
        /\ (pc[p] = "req_ipc" /\ pc'[p] # "req_ipc") => loads' = loads + 1
        /\ loads' # loads =>
              \E q \in Procs : pc[q] = "req_ipc" /\ pc'[q] = "req_build"

\* C2, the outcome: with no release and no cleanup, the callers that
\* get_share(X) returned a handle to all hold the same entity, it is the
\* one entry of X in the table and its refcount is their number.
C2_OneEntity ==
    \A X \in CanonNames :
        LET H == HoldersOf(X) IN
        /\ Cardinality(Entries(X)) <= 1
        /\ H # {} =>
             \E e \in Entries(X) :
                /\ \A p \in H : held[p] = e
                /\ Entries(X) = {e}
                /\ ent[e].refcount = Cardinality(H)

Active(X) == { e \in Entries(X) : ent[e].refcount >= 1 }

\* C3: under any interleaving of get_share and release_share, every name has
\* at most one entity that is in the table with refcount >= 1.
C3_OneActivePerName ==
    \A X \in CanonNames : Cardinality(Active(X)) <= 1

\* C3 witness: the reconcile step has inserted a second entity of a name
\* while the first, at refcount 0, is still linked: one of the two is ACTIVE.
C3_Witness ==
    \E X \in CanonNames :
        /\ Cardinality(Entries(X)) = 2
        /\ Cardinality(Active(X)) = 1

\* A step in which caller p runs the decrement of release_share on a live
\* entity.
PutDecStep(p) ==
    /\ pc[p] = "idle"
    /\ held[p] # 0
    /\ held'[p] = 0
    /\ ~IsKilled(held[p])

\* The rule of C4 for one step: release_share on an entity whose refcount is k > 1 only lowers the
\* refcount to k - 1 (the entity stays in the table, undestroyed, and the
\* call is over); release_share unlinks an entity from the table only in
\* the call whose decrement took its refcount from 1 to 0.
C4_ReleaseStep ==
    /\ \A p \in Procs :
          (PutDecStep(p) /\ ent[held[p]].refcount > 1) =>
              /\ ent'[held[p]].refcount = ent[held[p]].refcount - 1
              /\ table' = table
              /\ killed' = killed
              /\ workq' = workq
              /\ pc'[p] = "idle"
    /\ \A p \in Procs :
          (PutDecStep(p) /\ pc'[p] = "put_wlock") =>
              /\ ent[held[p]].refcount = 1
              /\ ent'[held[p]].refcount = 0
              /\ share'[p] = held[p]
    /\ \A e \in InTable(table) :
          (e \notin InTable(table') /\ shutdowns' = shutdowns) =>
              \E p \in Procs :
                 /\ pc[p] = "put_del"
                 /\ pc'[p] = "put_sched"
                 /\ share[p] = e
                 /\ ent[e].refcount = 0
                 /\ Releasing(e) = {p}

\* C4: every step satisfies the release_share rule above: a release at
\* refcount k > 1 only decrements, and an entity leaves the table only in
\* the release that took its refcount from 1 to 0.
C4_ReleaseRemovesOnlyAtZero == [][C4_ReleaseStep]_vars

\* C4 witness: an entity with refcount 2 is in the table and its two
\* holders are idle, so release_share at k > 1 is their next step, while
\* another entity is being unlinked by the release that dropped it to zero.
C4_Witness ==
    \E e \in InTable(table), f \in InTable(table) :
        /\ e # f
        /\ ent[e].refcount = 2
        /\ Cardinality(Holders(e)) = 2
        /\ \A q \in Holders(e) : pc[q] = "idle"
        /\ \E p \in Procs : pc[p] = "put_del" /\ share[p] = f
        /\ ent[f].refcount = 0

\* C5 as claimed: every entity reachable from the table has refcount >= 1.
C5_Original ==
    \A e \in InTable(table) : ent[e].refcount >= 1

\* C5 (amended): every entity reachable from the table has refcount >= 1,
\* except an entity whose last reference a release_share has dropped and
\* which that same call has not unlinked yet: the decrement to zero and the
\* removal are two steps, and between them the entity is in the table with
\* refcount 0, with exactly one caller inside its release.
C5_Amended ==
    \A e \in InTable(table) :
        \/ ent[e].refcount >= 1
        \/ /\ ent[e].refcount = 0
           /\ \E p \in Procs :
                 /\ pc[p] \in {"put_wlock", "put_del"}
                 /\ share[p] = e
                 /\ Releasing(e) = {p}

\* C5 witness: an entity is in the table with refcount 0 while its release
\* waits for the exclusive lock that another caller holds.
C5_Witness ==
    \E e \in InTable(table), p \in Procs :
        /\ ent[e].refcount = 0
        /\ pc[p] = "put_wlock"
        /\ share[p] = e
        /\ writer # 0

\* The rule of C6 for one step: once an entity's refcount has reached 0 it never becomes positive
\* again; no get_share returns such an entity, on the hit path or on the
\* reconcile path; a get_share whose shared lookup finds it goes on to the
\* fetch path, and one whose reconcile lookup finds it inserts its own
\* entity and returns that.
C6_Step ==
    /\ \A e \in Allocated :
          ent[e].refcount = 0 => ent'[e].refcount = 0
    /\ \A p \in Procs :
          (GetReturns(p) /\ held'[p] # 0) =>
              /\ ent[held'[p]].refcount >= 1
              /\ ent'[held'[p]].refcount >= 1
    /\ \A p \in Procs :
          LET l == __share_lookup(table, ent, name[p]) IN
          /\ (pc[p] = "get_lookup" /\ pc'[p] # "get_lookup"
              /\ l \in Allocated /\ ent[l].refcount = 0)
                => (pc'[p] = "req_ipc" /\ held'[p] = 0)
          /\ (pc[p] = "req_reconcile" /\ pc'[p] # "req_reconcile"
              /\ l \in Allocated /\ ent[l].refcount = 0)
                => (held'[p] = share[p] /\ share[p] \in InTable(table'))

\* C6: every step satisfies the rule above: a refcount that reached 0
\* stays 0, and no get_share returns an entity whose refcount is 0; it is
\* treated as a miss.
C6_NoResurrection == [][C6_Step]_vars

\* C6 witness: a caller stands in the reconcile step under the exclusive
\* lock and its lookup finds an entity of its name whose refcount is 0.
C6_Witness ==
    \E p \in Procs :
        /\ pc[p] = "req_reconcile"
        /\ LET l == __share_lookup(table, ent, name[p]) IN
              l \in Allocated /\ ent[l].refcount = 0

\* The rule of C7 for one step: the cleanup leaves the table empty; a
\* get_share never returns an entity that was torn down; a get_share whose
\* shared lookup finds no entry of its name goes on to the ConfigLoader
\* (or stops on a NULL name in the chain).
C7_Step ==
    /\ shutdowns' # shutdowns => InTable(table') = {}
    /\ \A p \in Procs :
          (GetReturns(p) /\ held'[p] # 0) =>
              (~IsKilled(held'[p]) /\ killed'[held'[p]] = << >>)
    /\ \A p \in Procs :
          (pc[p] = "get_lookup" /\ pc'[p] # "get_lookup"
           /\ Entries(name[p]) = {}) => pc'[p] \in {"req_ipc", "oops"}

\* C7: after shutdown_all_shares the table is empty, a torn-down entity is
\* never in the table and never returned, and a get_share that finds no
\* entry of its name goes to the ConfigLoader.
C7_FreshAfterCleanup ==
    /\ [][C7_Step]_vars
    /\ [](\A e \in InTable(table) : ~IsKilled(e))

\* C7 witness: an entity of a name was torn down by the cleanup, and a
\* get_share of that name has since returned another, live entity that is
\* in the table.
C7_Witness ==
    \E e \in Allocated, f \in Allocated, p \in Procs :
        /\ shutdowns = 1
        /\ killed[e] = << "cleanup" >>
        /\ f # e
        /\ held[p] = f
        /\ f \in InTable(table)
        /\ ~IsKilled(f)
        /\ ~ent[f].nameNull
        /\ ent[f].name = ent[e].name

\* C8: a caller inside the ConfigLoader request holds shares_table_lock
\* neither shared nor exclusive; when the fetching callers are the only
\* ones at work the lock is free, so a get_share of another caller can take
\* it and complete while the fetch is blocked.
C8_FetchHoldsNoLock ==
    /\ \A p \in Procs :
          pc[p] = "req_ipc" => (p \notin readers /\ writer # p)
    /\ (\A p \in Procs : pc[p] \in {"req_ipc", "idle"})
          => (readers = {} /\ writer = 0)

\* C8 witness: one caller sits in the ConfigLoader request while another
\* holds the lock in shared mode and its lookup hits a cached entity.
C8_Witness ==
    \E p \in Procs, q \in Procs :
        /\ pc[p] = "req_ipc"
        /\ pc[q] = "get_lookup"
        /\ q \in readers
        /\ LET l == __share_lookup(table, ent, name[q]) IN
              l \in Allocated /\ ent[l].refcount >= 1

\* The rule of C9 for one step: when the ConfigLoader answers NotFound (no response, or a response
\* flagged invalid), get_share returns no handle, builds no entity and
\* leaves the table as it was.
C9_Step ==
    \A p \in Procs :
        (pc[p] = "req_build" /\ resp[p].kind \in {"null", "invalid"}
         /\ pc'[p] # "req_build") =>
            /\ pc'[p] = "idle"
            /\ held'[p] = 0
            /\ nalloc' = nalloc
            /\ ent' = ent
            /\ killed' = killed
            /\ table' = table

\* C9: every step in which share_config_request handles a NotFound answer
\* returns no handle, builds nothing and leaves the table unchanged.
C9_NotFoundBuildsNothing == [][C9_Step]_vars

\* C9 witness: the loader has answered a caller with a response flagged
\* invalid while the table holds an entity.
C9_Witness ==
    \E p \in Procs :
        /\ pc[p] = "req_build"
        /\ resp[p].kind = "invalid"
        /\ InTable(table) # {}

\* An allocation failed while this (live) entity was constructed: its name
\* copy is missing, or it is a non-pipe share without its path copy (an
\* entity whose path failed to resolve is killed, never kept).
AllocFailed(e) ==
    ~IsKilled(e) /\ (ent[e].nameNull \/ (~ent[e].pipe /\ ~ent[e].path))

\* C10 as claimed: an allocation failure during construction makes
\* get_share return no handle and insert nothing, so no entity built with a
\* failed allocation is in the table or in a caller's hands.
C10_Original ==
    /\ \A e \in InTable(table) : ~AllocFailed(e)
    /\ \A p \in Procs : held[p] # 0 => ~AllocFailed(held[p])

\* ---------------------------------------------------------------- C11
\* The callers that stand before the construction of a non-pipe share from
\* a valid response, with room for the entity.
Constructing ==
    { p \in Procs : /\ pc[p] = "req_build"
                    /\ resp[p].kind = "ok"
                    /\ ~resp[p].pipe
                    /\ nalloc < MaxEnt }

\* What the construction of caller p gives when the name copy, the path
\* copy and every allocation of the veto parse succeed and kern_path has
\* the outcome okKern.
BuiltWith(p, okKern) == BuildEntity(name[p], resp[p], TRUE, TRUE, 0, okKern)

ReleaseShareStep(p) ==
    \/ pc[p] = "idle" /\ held[p] # 0 /\ held'[p] = 0
    \/ pc[p] \in {"put_wlock", "put_del", "put_sched"} /\ pc'[p] # pc[p]

\* The rule of C12 for one step.
C12_Step ==
    \* the removal is made by the caller that holds the lock exclusively
    /\ \A p \in Procs :
          (pc[p] = "put_del" /\ pc'[p] = "put_sched") =>
              /\ writer = p
              /\ readers = {}
              /\ share[p] \notin InTable(table')
              /\ workq' = workq
    \* destruction is scheduled only after the removal, the lock released
    /\ \A e \in EntIds :
          (e \notin workq /\ e \in workq') =>
              /\ e \notin InTable(table)
              /\ \E p \in Procs : /\ pc[p] = "put_sched"
                                   /\ share[p] = e
                                   /\ pc'[p] = "idle"
                                   /\ writer # p
    \* no step of a release_share call destroys anything
    /\ \A p \in Procs :
          ReleaseShareStep(p) =>
              /\ killed' = killed
              /\ \A e \in EntIds :
                    /\ ent'[e].veto = ent[e].veto
                    /\ ent'[e].path = ent[e].path
                    /\ ent'[e].vfs = ent[e].vfs
    \* the destruction that follows a release is a step of the worker on a
    \* scheduled entity, in which no caller moves
    /\ \A e \in EntIds :
          ( /\ Len(killed'[e]) = Len(killed[e]) + 1
            /\ killed'[e][Len(killed'[e])] = "worker" ) =>
              /\ e \in workq
              /\ e \notin workq'
              /\ pc' = pc
              /\ held' = held

\* C12: when release_share drops an entity's refcount to zero, the entity
\* is removed from the table under the exclusive lock before its
\* destruction is scheduled, and the destruction runs in the deferred
\* worker, never inside a step of the release_share call.
C12_RemoveThenDeferredKill == [][C12_Step]_vars

\* C12 witness: one entity has gone the whole way (released to zero,
\* unlinked, scheduled, killed by the worker and by nothing else) and
\* another one is unlinked and scheduled, not destroyed yet.
C12_Witness ==
    \E e1, e2 \in Allocated :
        /\ killed[e1] = << "worker" >>
        /\ e2 \in workq
        /\ ~IsKilled(e2)
        /\ ent[e2].refcount = 0
        /\ e2 \notin InTable(table)

\* ---------------------------------------------------------------- C13
\* The strings of L packed one after the other, each with its NUL.
RECURSIVE Join(_)
Join(L) == IF L = << >> THEN << >> ELSE Head(L) \o << 0 >> \o Join(Tail(L))

Reverse(L) == [i \in 1..Len(L) |-> L[Len(L) + 1 - i]]

\* L is, in the order of the buffer, the run of strings that a parse of the
\* first sz bytes of buf consumes: non-empty strings that lie packed at the
\* front of buf, each beginning within the first sz bytes, and followed by
\* a zero-length string or by the end of the sz bytes.
IsVetoParse(L, buf, sz) ==
    /\ \A i \in DOMAIN L : L[i] # << >> /\ 0 \notin SeqToSet(L[i])
    /\ Len(Join(L)) <= Len(buf)
    /\ Join(L) = SubSeq(buf, 1, Len(Join(L)))
    /\ \A i \in DOMAIN L : Len(Join(SubSeq(L, 1, i - 1))) < sz
    /\ \/ Len(Join(L)) >= sz
       \/ buf[Len(Join(L)) + 1] = 0

\* A call of parse_veto_list has returned.
VetoParsed == veto.stage \in {"parsed", "matched"}

\* C13 as stated: absent allocation failure the parse returns no error and
\* the list holds the consumed strings in the order they were consumed
\* from the buffer, which is the order in which the entries are matched.
C13_Original ==
    (VetoParsed /\ veto.failAt = 0) =>
        /\ veto.ret = 0
        /\ IsVetoParse(veto.list, veto.veto_list, veto.veto_list_sz)

\* C13 (amended): the parse terminates (one entry per two bytes of
\* total_length at most) and, absent allocation failure, returns no error
\* with a list holding exactly the non-empty strings that precede the
\* first zero-length string or the end of total_length, one entry per
\* string, in the REVERSE of the order consumed: each entry is added at the
\* head of the list and matching starts at the head.  A total_length of
\* zero (or below) yields the empty list and no error.
C13_Amended ==
    /\ VetoParsed =>
          /\ veto.ret \in {0, 0 - ENOMEM}
          /\ 2 * Len(veto.list) <= veto.veto_list_sz + 1 \/ veto.list = << >>
          /\ veto.veto_list_sz <= 0 => veto.ret = 0 /\ veto.list = << >>
    /\ (VetoParsed /\ veto.failAt = 0) => veto.ret = 0
    /\ (VetoParsed /\ veto.ret = 0) =>
          IsVetoParse(Reverse(veto.list), veto.veto_list, veto.veto_list_sz)

\* C13 witness: a parse without allocation failure has consumed two
\* different strings.
C13_Witness ==
    /\ veto.stage = "parsed"
    /\ veto.failAt = 0
    /\ Len(veto.list) = 2
    /\ veto.list[1] # veto.list[2]

\* ---------------------------------------------------------------- C14
\* The rule of C14 for one step: a call of veto_filename leaves the list as
\* it was.
C14_Step ==
    (veto.stage \in {"parsed", "matched"} /\ veto'.stage = "matched") =>
        veto'.list = veto.list

\* C14: veto_filename returns true if and only if at least one pattern of
\* the list matches the filename under match_wildcard; on an empty list it
\* returns false; it never modifies the list.
C14_VetoIffSomePatternMatches ==
    /\ [](veto.stage = "matched" =>
            /\ veto.found <=>
                  \E i \in DOMAIN veto.list :
                      match_wildcard(veto.list[i], veto.filename)
            /\ veto.list = << >> => ~veto.found)
    /\ [][C14_Step]_vars

\* C14 witness: a filename that the head of a two-entry list does not
\* match and the second entry does has been reported as vetoed.
C14_Witness ==
    /\ veto.stage = "matched"
    /\ Len(veto.list) = 2
    /\ ~match_wildcard(veto.list[1], veto.filename)
    /\ match_wildcard(veto.list[2], veto.filename)
    /\ veto.found

\* ---------------------------------------------------------------- C15
\* An override has been applied: the elevated credentials are the active
\* ones.
Overridden == fsids.stage = "overridden" /\ fsids.old_cred.kind = "cred"

\* C15: the elevated uid is the share's force_uid when that is not the
\* unset sentinel and the session's uid otherwise; independently the
\* elevated gid is force_gid when that is not the sentinel and the
\* session's gid otherwise; with both at the sentinel the elevated identity
\* is the session's.
C15_ElevatedIds ==
    Overridden =>
        /\ fsids.force_uid # SHARE_INVALID_UID =>
              fsids.current.fsuid = fsids.force_uid
        /\ fsids.force_uid = SHARE_INVALID_UID =>
              fsids.current.fsuid = fsids.user_uid
        /\ fsids.force_gid # SHARE_INVALID_GID =>
              fsids.current.fsgid = fsids.force_gid
        /\ fsids.force_gid = SHARE_INVALID_GID =>
              fsids.current.fsgid = fsids.user_gid
        /\ ( fsids.force_uid = SHARE_INVALID_UID
             /\ fsids.force_gid = SHARE_INVALID_GID ) =>
              /\ fsids.current.fsuid = fsids.user_uid
              /\ fsids.current.fsgid = fsids.user_gid

\* C15 witness: the share forces the gid and not the uid, on a session
\* whose gid differs from the forced one; the elevated identity is the
\* session's uid with the forced gid.
C15_Witness ==
    /\ Overridden
    /\ fsids.force_uid = SHARE_INVALID_UID
    /\ fsids.force_gid # SHARE_INVALID_GID
    /\ fsids.force_gid # fsids.user_gid
    /\ fsids.current.fsuid = fsids.user_uid
    /\ fsids.current.fsgid = fsids.force_gid

\* ---------------------------------------------------------------- C16
\* C16: after restore_identity with the token of the override, the active
\* identity (uid, gid, capabilities) is the one that was active just
\* before the override; restore_identity with a token of no override (NULL,
\* or the error of a failed override) leaves the active identity as it is.
C16_RestoreGivesBackEntry ==
    /\ fsids.stage = "reverted" =>
          /\ fsids.current = fsids.entry
          /\ fsids.usage = 0
    /\ (fsids.stage = "overridden" /\ IS_ERR_OR_NULL(fsids.old_cred)) =>
          fsids.current = fsids.entry

\* C16 witness: an override that changed uid, gid and capabilities has
\* been reverted with its token.
C16_Witness ==
    /\ fsids.stage = "reverted"
    /\ fsids.old_cred.kind = "cred"
    /\ fsids.current = fsids.entry
    /\ LET ids == override_ids(fsids.user_uid, fsids.user_gid,
                               fsids.force_uid, fsids.force_gid) IN
       /\ ids.uid # fsids.entry.fsuid
       /\ ids.uid # GLOBAL_ROOT_UID
       /\ ids.gid # fsids.entry.fsgid
       /\ fsids.entry.cap_effective = CAP_FULL_SET

\* ---------------------------------------------------------------- C17
\* The get_share calls that have built entity e and have not returned: e
\* is their local share, not yet inserted nor discarded.
Building(e) ==
    { p \in Procs : /\ share[p] = e
                    /\ pc[p] \in {"req_wlock", "req_reconcile", "oops"} }

C18_Original ==
    /\ \A e \in EntIds : Len(killed[e]) <= 1
    /\ ~uaf

\* ---------------------------------------------------------------- C19
\* The entities kill_share can be handed in the construction of caller p:
\* what line 181 kills, for every outcome of the allocations and of
\* kern_path.
KilledInBuild(p) ==
    { b.e : b \in { x \in { BuildEntity(name[p], resp[p], okName, okPath,
                                        failAt, okKern) :
                            okName \in BOOLEAN, okPath \in BOOLEAN,
                            failAt \in 0..MaxVetoAllocs,
                            okKern \in BOOLEAN } : x.fail } }

\* C19 as stated: whenever kill_share releases an entity's path handle
\* (its path is not absent), the path resolution of that entity had been
\* performed and had succeeded: for the entities that are alive (which the
\* reconciliation, the worker or the cleanup may kill) and for the ones a
\* failed construction kills on the spot.
C19_Original ==
    /\ \A e \in Allocated :
          (~IsKilled(e) /\ kill_share_puts_path(ent[e])) => ent[e].vfs
    /\ \A p \in Constructing :
          \A sh \in KilledInBuild(p) : kill_share_puts_path(sh) => sh.vfs

\* ---------------------------------------------------------------- C20
\* C20 as stated: under any interleaving of get_share and release_share
\* the table never holds two entries with the same name, whatever their
\* refcounts.
C20_Original ==
    \A X \in CanonNames : Cardinality(Entries(X)) <= 1

\* The place of entity e in its chain of the table (head: 1).
ChainPos(e) ==
    LET b == CHOOSE c \in Buckets : e \in SeqToSet(table[c])
    IN CHOOSE i \in DOMAIN table[b] : table[b][i] = e

\* The callers whose release_share has lowered e to zero and has not yet
\* unlinked it.
Unlinking(e) ==
    { p \in Procs : pc[p] \in {"put_wlock", "put_del"} /\ share[p] = e }

\* C20 (amended): under any interleaving of get_share and release_share
\* the entries of one name in the table are at most one entry with
\* refcount >= 1 and, beside it, only entries whose refcount a
\* release_share has lowered to zero and which that one call is about to
\* unlink; the entry with refcount >= 1 stands before them in its chain,
\* so a lookup finds it first.
C20_Amended ==
    \A X \in CanonNames :
        /\ Cardinality(Active(X)) <= 1
        /\ \A d \in Entries(X) \ Active(X) :
              /\ ent[d].refcount = 0
              /\ Cardinality(Unlinking(d)) = 1
              /\ Holders(d) = {}
              /\ \A a \in Active(X) : ChainPos(a) < ChainPos(d)

\* C20 witness: the table holds two entries of one name: one that its
\* release has lowered to zero and not yet unlinked, and before it in the
\* chain a newer one with an outstanding handle, which a lookup finds.
C20_Witness ==
    \E X \in CanonNames : \E a, d \in Entries(X) :
        /\ a # d
        /\ ent[d].refcount = 0
        /\ Unlinking(d) # {}
        /\ ent[a].refcount >= 1
        /\ Holders(a) # {}
        /\ __share_lookup(table, ent, X) = a

====
